---------------------------- MODULE Spec2Model ----------------------------
(***************************************************************************)
(* A model of mbuild.formats.lammpsdata.write_lammpsdata.                  *)
(*                                                                         *)
(* One invocation of the writer is a straight-line program; pc is its      *)
(* position, the other variables are its arguments, its locals, the       *)
(* topology it reads (and, through join_dihedrals, changes) and the file  *)
(* on disk.  A caller step (Reinvoke) starts a second invocation on the    *)
(* same topology with the same arguments in a fresh interpreter.          *)
(*                                                                         *)
(* Numbers are fixed point: an integer n stands for n / 10^4.  Text is a  *)
(* sequence of character codes, so that Python's string order (sorted) and *)
(* the natural order of natural_sort are different, computed orders.       *)
(***************************************************************************)
EXTENDS Integers, Sequences, FiniteSets

(***************************************************************************)
(* Bounds of the model.                                                    *)
(***************************************************************************)
\* longest list of bonded terms of one category in an input topology
MaxTerms == 2
\* most entries of an explicit cross-term (NBFIX) table
MaxNbfix == 2
\* invocations of the writer on one topology
MaxRuns == 2

\* fixed-point unit: 1.0 is Unit
Unit == 10 ^ 4

(***************************************************************************)
(* Text.  Character codes are ASCII.                                       *)
(***************************************************************************)
Str_C2 == <<67, 50>>
Str_C10 == <<67, 49, 48>>
Str_HC == <<72, 67>>
Str_empty == <<>>
Str_C == <<67>>
Str_nan == <<110, 97, 110>>
Str_inf == <<105, 110, 102>>
Str_neginf == <<45, 105, 110, 102>>
Str_H == <<72>>

IsDigit(c) == c >= 48 /\ c <= 57

\* Python's < on str: code point by code point, a proper prefix is smaller
RECURSIVE StrLess(_, _)
StrLess(a, b) ==
    IF a = <<>> THEN b # <<>>
    ELSE IF b = <<>> THEN FALSE
    ELSE IF Head(a) # Head(b) THEN Head(a) < Head(b)
    ELSE StrLess(Tail(a), Tail(b))

\* tuple(sorted((x, y))) of two strings
SortedPair(x, y) == IF StrLess(y, x) THEN <<y, x>> ELSE <<x, y>>

\* sorted(key) of a 2-tuple of strings, as used on NBFIX keys
SortedKey_m(key) == key
SortedKey(key) == SortedPair(key[1], key[2])

(***************************************************************************)
(* mbuild.utils.sorting.natural_sort: the key of a label is the list of    *)
(* its runs of non-digits and digits, the digit runs as integers.  The     *)
(* labels of the model are one run of non-digits and at most one of       *)
(* digits; NaturalLess is Python's list comparison of two such keys.       *)
(***************************************************************************)
RECURSIVE TextPart(_)
TextPart(s) ==
    IF s = <<>> \/ IsDigit(Head(s)) THEN <<>>
    ELSE <<Head(s)>> \o TextPart(Tail(s))

RECURSIVE DigitPart(_)
DigitPart(s) ==
    IF s = <<>> THEN <<>>
    ELSE IF IsDigit(Head(s)) THEN s
    ELSE DigitPart(Tail(s))

RECURSIVE Atoi(_, _)
Atoi(acc, s) ==
    IF s = <<>> THEN acc ELSE Atoi(10 * acc + (Head(s) - 48), Tail(s))

natural_sort(text) ==
    [text |-> TextPart(text),
     hasnum |-> DigitPart(text) # <<>>,
     num |-> Atoi(0, DigitPart(text))]

NaturalLess(a, b) ==
    LET ka == natural_sort(a)
        kb == natural_sort(b)
    IN  IF ka.text # kb.text THEN StrLess(ka.text, kb.text)
        ELSE IF ka.hasnum /\ kb.hasnum THEN ka.num < kb.num
        ELSE ~ka.hasnum /\ kb.hasnum

(***************************************************************************)
(* Sequences and sets.                                                     *)
(***************************************************************************)
Range(s) == {s[i] : i \in DOMAIN s}

\* list.index(x)+1, for x in the list
IndexOf(s, x) == CHOOSE i \in DOMAIN s : s[i] = x /\ \A j \in 1..(i - 1) : s[j] # x

\* every ordering of a finite set: what iterating a hash set may yield
Orderings(S) ==
    {f \in [1..Cardinality(S) -> S] : \A i, j \in 1..Cardinality(S) : f[i] = f[j] => i = j}

\* the sequences over S of length at most n
SeqsUpTo(S, n) == UNION {[1..k -> S] : k \in 0..n}

\* list.sort(key=natural_sort) of a set of labels
RECURSIVE SortNatural(_)
SortNatural(S) ==
    IF S = {} THEN <<>>
    ELSE LET m == CHOOSE x \in S : \A y \in S \ {x} : NaturalLess(x, y)
         IN  <<m>> \o SortNatural(S \ {m})

(***************************************************************************)
(* round(x, ndigits) on the fixed-point grid: to the nearest multiple of   *)
(* step, a tie to the even multiple (Python 3's round).                    *)
(***************************************************************************)
RoundTo(v, step) ==
    LET q == v \div step
        r == v % step
    IN  IF 2 * r < step THEN q * step
        ELSE IF 2 * r > step THEN (q + 1) * step
        ELSE IF q % 2 = 0 THEN q * step ELSE (q + 1) * step

\* round(x, 3), round(x, 1), round(x, 0), round(x, 4)
Round3(v) == RoundTo(v, 10)
Round1(v) == RoundTo(v, 1000)
Round0(v) == RoundTo(v, Unit)
Round4(v) == RoundTo(v, 1)


(***************************************************************************)
(* The topologies the writer is run on (a parmed.Structure).  An atom is   *)
(* named by its index in structure.atoms; a bonded term carries its atoms  *)
(* and its parameter type.                                                 *)
(***************************************************************************)
A_C2 == [type |-> Str_C2, name |-> Str_C, mass |-> 120110, charge |-> -1800,
         sigma |-> 35000, epsilon |-> 660]
A_C10 == [type |-> Str_C10, name |-> Str_C, mass |-> 120110, charge |-> -1200,
          sigma |-> 34000, epsilon |-> 700]
A_HC == [type |-> Str_HC, name |-> Str_H, mass |-> 10080, charge |-> 600,
         sigma |-> 25000, epsilon |-> 300]

TypedAtoms == <<A_C2, A_C10, A_HC, A_C2>>

\* the same atoms before a force field is applied: atom.type is ''
Untyped(a) == [a EXCEPT !.type = Str_empty]
UntypedAtoms == [i \in DOMAIN TypedAtoms |-> Untyped(TypedAtoms[i])]

\* bond.type of a bond of a structure without bond types (None, never read)
NoType == [k |-> 0, req |-> 0]

\* BondType(k, req); the first two differ by less than round(, 3) keeps
BondTypeList == <<[k |-> 3400, req |-> 10900], [k |-> 3404, req |-> 10900],
                  [k |-> 2680, req |-> 15290]>>
AngleTypeList == <<[k |-> 3750, theteq |-> 1107000], [k |-> 3752, theteq |-> 1107000],
                   [k |-> 5000, theteq |-> 1090000]>>
UreyBradleyTypeList == <<[k |-> 2200, req |-> 21790], [k |-> 3000, req |-> 18000]>>
RBTorsionTypeList ==
    <<[c |-> <<1500, 4500, 0, -6000, 0, 0>>, scee |-> 5000, scnb |-> 5000],
      [c |-> <<1504, 4500, 0, -6000, 0, 0>>, scee |-> 5004, scnb |-> 5000],
      [c |-> <<0, 0, 3000, 0, 0, 0>>, scee |-> 5000, scnb |-> 5000]>>
DihedralTermList ==
    <<[phi_k |-> 2000, per |-> 30000, phase |-> 0, scee |-> 10000, scnb |-> 10000],
      [phi_k |-> 1000, per |-> 10000, phase |-> 1800000, scee |-> 10000, scnb |-> 10000],
      [phi_k |-> 11000, per |-> 20000, phase |-> 1800000, scee |-> 10000, scnb |-> 10000]>>
ImproperTypeList == <<[psi_k |-> 450000, psi_eq |-> 0], [psi_k |-> 450004, psi_eq |-> 0],
                      [psi_k |-> 900000, psi_eq |-> 0]>>

Bond(a1, a2, t) == [atom1 |-> a1, atom2 |-> a2, type |-> t]
Angle(a1, a2, a3, t) == [atom1 |-> a1, atom2 |-> a2, atom3 |-> a3, type |-> t]
Quad(a1, a2, a3, a4, t) ==
    [atom1 |-> a1, atom2 |-> a2, atom3 |-> a3, atom4 |-> a4, type |-> t]
\* a parmed Dihedral: type is a DihedralType (one term, of a structure that
\* is not joined) or a DihedralTypeList
Dihedral(a1, a2, a3, a4, imp, t) ==
    [atom1 |-> a1, atom2 |-> a2, atom3 |-> a3, atom4 |-> a4, improper |-> imp, type |-> t]

BondCands ==
    {Bond(1, 2, BondTypeList[1]), Bond(2, 1, BondTypeList[1]), Bond(1, 2, BondTypeList[2]),
     Bond(1, 2, BondTypeList[3]), Bond(2, 3, BondTypeList[1])}
UntypedBondCands == {Bond(1, 2, NoType), Bond(2, 3, NoType)}
AngleCands ==
    {Angle(1, 2, 3, AngleTypeList[1]), Angle(3, 2, 1, AngleTypeList[1]),
     Angle(1, 2, 3, AngleTypeList[2]), Angle(1, 2, 3, AngleTypeList[3]),
     Angle(1, 2, 4, AngleTypeList[1]), Angle(1, 3, 4, AngleTypeList[1])}
UreyBradleyCands ==
    {Bond(1, 3, UreyBradleyTypeList[1]), Bond(3, 1, UreyBradleyTypeList[1]),
     Bond(1, 4, UreyBradleyTypeList[2])}
RBTorsionCands ==
    {Quad(1, 2, 3, 4, RBTorsionTypeList[1]), Quad(4, 3, 2, 1, RBTorsionTypeList[1]),
     Quad(1, 2, 3, 4, RBTorsionTypeList[2]), Quad(1, 2, 3, 4, RBTorsionTypeList[3])}
\* dihedrals of a structure that is not joined: one Dihedral per term
DihedralCands ==
    {Dihedral(1, 2, 3, 4, FALSE, <<DihedralTermList[1]>>),
     Dihedral(1, 2, 3, 4, FALSE, <<DihedralTermList[2]>>),
     Dihedral(4, 3, 2, 1, FALSE, <<DihedralTermList[2]>>),
     Dihedral(2, 1, 3, 4, TRUE, <<DihedralTermList[3]>>)}
\* dihedrals of a joined structure: each carries its DihedralTypeList
JoinedDihedralCands ==
    {Dihedral(1, 2, 3, 4, FALSE, <<DihedralTermList[1], DihedralTermList[2]>>),
     Dihedral(4, 3, 2, 1, FALSE, <<DihedralTermList[1]>>),
     Dihedral(2, 1, 3, 4, TRUE, <<DihedralTermList[3]>>)}
ImproperCands ==
    {Quad(1, 2, 3, 4, ImproperTypeList[1]), Quad(4, 3, 2, 1, ImproperTypeList[1]),
     Quad(1, 2, 3, 4, ImproperTypeList[2]), Quad(1, 2, 3, 4, ImproperTypeList[3])}

\* Box lengths (Angstrom) and angles (degrees), structure.box
OrthoBox == [lengths |-> <<200000, 200000, 200000>>, angles |-> <<900000, 900000, 900000>>]

\* a box whose angles np.allclose takes for 90, and triclinic boxes: hexagonal,
\* rhombohedral, monoclinic, and cells that do not exist: one whose angles no
\* cell has (alpha > beta + gamma) and a flat one (gamma = 180)
NearOrthoBox == [lengths |-> <<200000, 200000, 200000>>, angles |-> <<900005, 900000, 899995>>]
TriclinicBoxes ==
    {[lengths |-> <<20000, 20000, 30000>>, angles |-> <<al * Unit, be * Unit, ga * Unit>>] :
        <<al, be, ga>> \in {<<90, 90, 120>>, <<60, 60, 60>>, <<90, 60, 90>>, <<150, 60, 60>>,
                                 <<60, 60, 180>>}}

\* explicit cross terms: key (type label, type label) -> (rmin, epsilon)
NbfixKeys == {<<Str_C2, Str_C10>>, <<Str_C10, Str_C2>>, <<Str_C2, Str_C2>>, <<Str_C2, Str_HC>>}
NbfixVals == {<<12000, 21000>>, <<15000, 5000>>}
\* a dict in insertion order: no key twice
NbfixTables ==
    {t \in SeqsUpTo(NbfixKeys \X NbfixVals, MaxNbfix) :
        \A i, j \in DOMAIN t : t[i][1] = t[j][1] => i = j}

CombiningRules == {"lorentz", "geometric", "other"}
AtomStyles == {"atomic", "charge", "molecular", "full", "foo"}

BareStructure(atoms) ==
    [atoms |-> atoms, bonds |-> <<>>, bond_types |-> <<>>, angles |-> <<>>,
     urey_bradleys |-> <<>>, rb_torsions |-> <<>>, dihedrals |-> <<>>, joined |-> FALSE,
     impropers |-> <<>>, box |-> OrthoBox, combining_rule |-> "lorentz",
     nbfix_types |-> <<>>]

\* the defaults of write_lammpsdata's keyword arguments
DefaultArgs ==
    [atom_style |-> "full", detect_forcefield_style |-> TRUE, nbfix_in_data_file |-> TRUE,
     use_urey_bradleys |-> FALSE, use_rb_torsions |-> TRUE, use_dihedrals |-> FALSE]


(***************************************************************************)
(* State.                                                                  *)
(***************************************************************************)
VARIABLES
    structure,              \* the topology (changed only by join_dihedrals)
    topology0,              \* the topology as it was when the invocation began
    args,                   \* the arguments of the call
    run,                    \* number of the invocation
    prev_data,              \* the file as the previous invocation left it
    pc,                     \* position in write_lammpsdata
    err,                    \* the exception the invocation raised, "" for none
    use_urey_bradleys, use_rb_torsions, use_dihedrals,
    forcefield, types, unique_types,
    bonds, angles, dihedrals, impropers,
    bond_types, unique_bond_types,
    charmm_angle_types, angle_types, unique_angle_types,
    charmm_dihedrals, dihedral_types, unique_dihedral_types,
    improper_types, unique_improper_types,
    bound,                  \* the type tables that have been assigned
    coeffs,                 \* the cross-term table, (type1, type2) -> (sigma, epsilon)
    warnings,               \* the warnings issued (warnings.warn), in order
    data,                   \* the output file: the lines written to it
    opened                  \* whether this invocation has opened the file

callVars == <<structure, topology0, args, run, prev_data>>
styleVars == <<use_urey_bradleys, use_rb_torsions, use_dihedrals>>
atomVars == <<forcefield, types, unique_types>>
listVars == <<bonds, angles, dihedrals, impropers>>
bondVars == <<bond_types, unique_bond_types>>
angleVars == <<charmm_angle_types, angle_types, unique_angle_types>>
dihedralVars == <<charmm_dihedrals, dihedral_types, unique_dihedral_types>>
improperVars == <<improper_types, unique_improper_types>>
tableVars == <<bondVars, angleVars, dihedralVars, improperVars, bound>>
fileVars == <<coeffs, warnings, data, opened>>
vars == <<callVars, pc, err, styleVars, atomVars, listVars, tableVars, fileVars>>

(***************************************************************************)
(* The calls the model starts from.  Each family varies one part of the    *)
(* input and holds the rest at a fixed value.                              *)
(***************************************************************************)
Typed == BareStructure(TypedAtoms)

BondCalls ==
    {<<[Typed EXCEPT !.bonds = b, !.bond_types = BondTypeList],
       [DefaultArgs EXCEPT !.atom_style = st]>> :
        b \in SeqsUpTo(BondCands, MaxTerms), st \in {"full", "atomic"}}
    \cup {<<[BareStructure(at) EXCEPT !.bonds = b], DefaultArgs>> :
        b \in SeqsUpTo(UntypedBondCands, MaxTerms), at \in {TypedAtoms, UntypedAtoms}}

AngleCalls ==
    {<<[Typed EXCEPT !.angles = a, !.urey_bradleys = u], DefaultArgs>> :
        a \in SeqsUpTo(AngleCands, MaxTerms), u \in SeqsUpTo(UreyBradleyCands, 1)}

DihedralCalls ==
    {<<[Typed EXCEPT !.rb_torsions = r, !.dihedrals = d],
       [DefaultArgs EXCEPT !.atom_style = st]>> :
        r \in SeqsUpTo(RBTorsionCands, MaxTerms), d \in SeqsUpTo(DihedralCands, 1),
        st \in {"full", "charge"}}
    \cup {<<[Typed EXCEPT !.dihedrals = d, !.joined = j], DefaultArgs>> :
        d \in SeqsUpTo(DihedralCands, MaxTerms), j \in {FALSE}}
    \cup {<<[Typed EXCEPT !.dihedrals = d, !.joined = j], DefaultArgs>> :
        d \in SeqsUpTo(JoinedDihedralCands, MaxTerms) \ {<<>>}, j \in {TRUE}}

ImproperCalls ==
    {<<[Typed EXCEPT !.impropers = i],
       [DefaultArgs EXCEPT !.atom_style = st]>> :
        i \in SeqsUpTo(ImproperCands, MaxTerms), st \in {"full", "molecular"}}

StyleStructures ==
    {[Typed EXCEPT !.rb_torsions = r, !.dihedrals = d, !.urey_bradleys = u,
                   !.angles = <<Angle(1, 2, 3, AngleTypeList[1])>>,
                   !.bonds = <<Bond(1, 2, BondTypeList[1])>>, !.bond_types = BondTypeList] :
        r \in {<<>>, <<Quad(1, 2, 3, 4, RBTorsionTypeList[1])>>},
        d \in {<<>>, <<Dihedral(1, 2, 3, 4, FALSE, <<DihedralTermList[1]>>)>>},
        u \in {<<>>, <<Bond(1, 3, UreyBradleyTypeList[1])>>}}

StyleCalls ==
    {<<s, [atom_style |-> st, detect_forcefield_style |-> det, nbfix_in_data_file |-> TRUE,
           use_urey_bradleys |-> ub, use_rb_torsions |-> rb, use_dihedrals |-> dh]>> :
        s \in StyleStructures, st \in AtomStyles, det \in BOOLEAN, ub \in BOOLEAN,
        rb \in BOOLEAN, dh \in BOOLEAN}

PairCalls ==
    {<<[BareStructure(at) EXCEPT !.nbfix_types = nb, !.combining_rule = cr],
       [DefaultArgs EXCEPT !.nbfix_in_data_file = inf]>> :
        at \in {<<A_C2, A_C10, A_HC>>, <<A_C10, A_C2>>}, nb \in NbfixTables,
        cr \in CombiningRules, inf \in BOOLEAN}

BoxCalls ==
    {<<[BareStructure(at) EXCEPT !.box = bx], [DefaultArgs EXCEPT !.atom_style = st]>> :
        at \in {TypedAtoms, UntypedAtoms}, bx \in {NearOrthoBox} \cup TriclinicBoxes,
        st \in {"full", "atomic"}}

Calls == BondCalls \cup AngleCalls \cup DihedralCalls \cup ImproperCalls
         \cup StyleCalls \cup PairCalls \cup BoxCalls

\* the locals of a fresh invocation
Fresh ==
    /\ pc = "check_atom_style"
    /\ err = ""
    /\ use_urey_bradleys = args.use_urey_bradleys
    /\ use_rb_torsions = args.use_rb_torsions
    /\ use_dihedrals = args.use_dihedrals
    /\ forcefield = TRUE
    /\ types = <<>>
    /\ unique_types = <<>>
    /\ bonds = <<>> /\ angles = <<>> /\ dihedrals = <<>> /\ impropers = <<>>
    /\ bond_types = <<>> /\ unique_bond_types = <<>>
    /\ charmm_angle_types = <<>> /\ angle_types = <<>> /\ unique_angle_types = <<>>
    /\ charmm_dihedrals = <<>> /\ dihedral_types = <<>> /\ unique_dihedral_types = <<>>
    /\ improper_types = <<>> /\ unique_improper_types = <<>>
    /\ bound = {}
    /\ coeffs = <<>>
    /\ warnings = <<>>
    /\ opened = FALSE

Init ==
    /\ \E c \in Calls : structure = c[1] /\ args = c[2]
    /\ topology0 = structure
    /\ run = 1
    /\ prev_data = <<>>
    /\ data = <<>>
    /\ Fresh

\* raise: the invocation ends with exception e
Raise(e) == pc' = "error" /\ err' = e

(***************************************************************************)
(* Lines 64-65: the atom style is validated before anything else.          *)
(***************************************************************************)
ValidAtomStyle_m(style) == TRUE
ValidAtomStyle(style) == style \in {"atomic", "charge", "molecular", "full"}

CheckAtomStyle ==
    /\ pc = "check_atom_style"
    /\ IF ValidAtomStyle(args.atom_style)
       THEN pc' = "gather" /\ err' = err
       ELSE Raise("ValueError: atom style")
    /\ UNCHANGED <<callVars, styleVars, atomVars, listVars, tableVars, fileVars>>

(***************************************************************************)
(* Lines 67-116: the type label of every atom and the sorted list of the   *)
(* distinct labels.                                                        *)
(***************************************************************************)
AtomLabels(atoms, ff) == [i \in DOMAIN atoms |-> IF ff THEN atoms[i].type ELSE atoms[i].name]

GatherTypes ==
    /\ pc = "gather"
    /\ forcefield' = (structure.atoms[1].type # Str_empty)
    /\ types' = AtomLabels(structure.atoms, forcefield')
    /\ unique_types' = SortNatural(Range(types'))
    /\ pc' = "detect"
    /\ UNCHANGED <<callVars, err, styleVars, listVars, tableVars, fileVars>>

(***************************************************************************)
(* Lines 121-143: the angle and dihedral styles, and the check that only   *)
(* one dihedral style is in use.                                           *)
(***************************************************************************)
Conflicting_m(rb, dih) == FALSE
Conflicting(rb, dih) == rb /\ dih

DetectStyle ==
    /\ pc = "detect"
    /\ IF args.detect_forcefield_style
       THEN /\ use_urey_bradleys' = (Len(structure.urey_bradleys) > 0)
            /\ use_rb_torsions' = (Len(structure.rb_torsions) > 0)
            /\ use_dihedrals' = (Len(structure.dihedrals) > 0)
       ELSE UNCHANGED styleVars
    /\ IF Conflicting(use_rb_torsions', use_dihedrals')
       THEN Raise("ValueError: multiple dihedral styles")
       ELSE pc' = "lists" /\ err' = err
    /\ UNCHANGED <<callVars, atomVars, listVars, tableVars, fileVars>>

(***************************************************************************)
(* Lines 146-165: the atom indices of every bonded term.                   *)
(***************************************************************************)
Pairs(terms) == [i \in DOMAIN terms |-> <<terms[i].atom1, terms[i].atom2>>]
Triples(terms) ==
    [i \in DOMAIN terms |-> <<terms[i].atom1, terms[i].atom2, terms[i].atom3>>]
Quads(terms) ==
    [i \in DOMAIN terms |->
        <<terms[i].atom1, terms[i].atom2, terms[i].atom3, terms[i].atom4>>]

DihedralList(s, rb, dih) ==
    IF rb THEN Quads(s.rb_torsions)
    ELSE IF dih THEN Quads(s.dihedrals)
    ELSE <<>>

BuildLists ==
    /\ pc = "lists"
    /\ bonds' = Pairs(structure.bonds)
    /\ angles' = Triples(structure.angles)
    /\ dihedrals' = DihedralList(structure, use_rb_torsions, use_dihedrals)
    /\ impropers' = Quads(structure.impropers)
    /\ pc' = "bond_types"
    /\ UNCHANGED <<callVars, err, styleVars, atomVars, tableVars, fileVars>>


(***************************************************************************)
(* Type tables.  dict(enumerate(set(keys))) numbers the distinct keys in   *)
(* the order the hash set yields them, and OrderedDict([(y, x+1) ...])     *)
(* turns the numbering round: the table is the list of its (key, ID)       *)
(* items.  The order of a set of tuples that hold strings changes with the *)
(* interpreter's hash seed, so every ordering is a possible one.           *)
(***************************************************************************)
UniqueKeys(keys) == Range(keys)

InvertEnumeration_m(order) == [i \in DOMAIN order |-> <<order[i], i - 1>>]
InvertEnumeration(order) == [i \in DOMAIN order |-> <<order[i], i>>]

HasKey(table, key) == \E i \in DOMAIN table : table[i][1] = key
Lookup(table, key) == table[CHOOSE i \in DOMAIN table : table[i][1] = key][2]

\* [table[key] for key in keys]
TypeIds(table, keys) == [i \in DOMAIN keys |-> Lookup(table, keys[i])]

AllKeysIn(table, keys) == \A i \in DOMAIN keys : HasKey(table, keys[i])

\* np.ones(n, dtype=int)
Ones(n) == [i \in 1..n |-> 1]

(***************************************************************************)
(* Lines 169-181: bond types.                                              *)
(***************************************************************************)
BondKey_m(atoms, bond) ==
    <<Round3(bond.type.k), Round3(bond.type.req),
      <<atoms[bond.atom1].type, atoms[bond.atom2].type>> >>
BondKey(atoms, bond) ==
    <<Round3(bond.type.k), Round3(bond.type.req),
      SortedPair(atoms[bond.atom1].type, atoms[bond.atom2].type)>>

BondKeys(s) == [i \in DOMAIN s.bonds |-> BondKey(s.atoms, s.bonds[i])]

BondTypes ==
    /\ pc = "bond_types"
    /\ IF bonds = <<>>
       THEN UNCHANGED <<bondVars, bound>>
       ELSE IF Len(structure.bond_types) = 0
       THEN /\ bond_types' = Ones(Len(bonds))
            /\ bound' = bound \cup {"bond_types"}
            /\ UNCHANGED unique_bond_types
       ELSE /\ \E order \in Orderings(UniqueKeys(BondKeys(structure))) :
                    unique_bond_types' = InvertEnumeration(order)
            /\ bond_types' = TypeIds(unique_bond_types', BondKeys(structure))
            /\ bound' = bound \cup {"bond_types", "unique_bond_types"}
    /\ pc' = "angle_types"
    /\ UNCHANGED <<callVars, err, styleVars, atomVars, listVars, angleVars, dihedralVars,
                   improperVars, fileVars>>

(***************************************************************************)
(* Lines 183-215: angle types, with the Urey-Bradley term of each angle    *)
(* in the charmm style.                                                    *)
(***************************************************************************)
\* lines 187-192: the last Urey-Bradley term whose (atom1, atom2) is the
\* angle's (atom1, atom3); (0, 0) when there is none
RECURSIVE UreyBradleyOf(_, _, _)
UreyBradleyOf(angle, ubs, found) ==
    IF ubs = <<>> THEN found
    ELSE UreyBradleyOf(angle, Tail(ubs),
            IF <<angle.atom1, angle.atom3>> = <<Head(ubs).atom1, Head(ubs).atom2>>
            THEN <<Head(ubs).type.k, Head(ubs).type.req>>
            ELSE found)

CharmmAngleKey(atoms, angle, ubs) ==
    LET ub == UreyBradleyOf(angle, ubs, <<0, 0>>)
    IN  <<Round3(angle.type.k), Round3(angle.type.theteq), Round3(ub[1]), Round3(ub[2]),
          SortedPair(atoms[angle.atom1].type, atoms[angle.atom3].type)>>

HarmonicAngleKey(atoms, angle) ==
    <<Round3(angle.type.k), Round3(angle.type.theteq), atoms[angle.atom2].type,
      SortedPair(atoms[angle.atom1].type, atoms[angle.atom3].type)>>

CharmmAngleKeys(s) ==
    [i \in DOMAIN s.angles |-> CharmmAngleKey(s.atoms, s.angles[i], s.urey_bradleys)]
HarmonicAngleKeys(s) == [i \in DOMAIN s.angles |-> HarmonicAngleKey(s.atoms, s.angles[i])]

AngleTypes ==
    /\ pc = "angle_types"
    /\ IF angles = <<>>
       THEN UNCHANGED <<angleVars, bound>>
       ELSE IF use_urey_bradleys
       THEN /\ charmm_angle_types' = CharmmAngleKeys(structure)
            /\ \E order \in Orderings(UniqueKeys(charmm_angle_types')) :
                    unique_angle_types' = InvertEnumeration(order)
            /\ angle_types' = TypeIds(unique_angle_types', charmm_angle_types')
            /\ bound' = bound \cup {"angle_types", "unique_angle_types"}
       ELSE /\ \E order \in Orderings(UniqueKeys(HarmonicAngleKeys(structure))) :
                    unique_angle_types' = InvertEnumeration(order)
            /\ angle_types' = TypeIds(unique_angle_types', HarmonicAngleKeys(structure))
            /\ bound' = bound \cup {"angle_types", "unique_angle_types"}
            /\ UNCHANGED charmm_angle_types
    /\ pc' = "dihedral_types"
    /\ UNCHANGED <<callVars, err, styleVars, atomVars, listVars, bondVars, dihedralVars,
                   improperVars, fileVars>>


(***************************************************************************)
(* Lines 217-261: dihedral types.                                          *)
(***************************************************************************)
Labels4(atoms, t) ==
    <<atoms[t.atom1].type, atoms[t.atom2].type, atoms[t.atom3].type, atoms[t.atom4].type>>

RBTorsionKey(atoms, d) ==
    <<Round3(d.type.c[1]), Round3(d.type.c[2]), Round3(d.type.c[3]), Round3(d.type.c[4]),
      Round3(d.type.c[5]), Round3(d.type.c[6]), Round1(d.type.scee), Round1(d.type.scnb)>>
    \o Labels4(atoms, d)

RBTorsionKeys(s) == [i \in DOMAIN s.rb_torsions |-> RBTorsionKey(s.atoms, s.rb_torsions[i])]

(***************************************************************************)
(* parmed's Structure.join_dihedrals, called on line 245: does nothing on  *)
(* a structure without dihedral types or whose dihedrals already carry     *)
(* DihedralTypeLists; otherwise the dihedrals over the same four atoms (in *)
(* either direction) become one dihedral, the first of them, whose type is *)
(* the list of all their terms, and the others are deleted.                *)
(***************************************************************************)
Oriented(d) ==
    IF d.atom1 < d.atom4 THEN <<d.atom1, d.atom2, d.atom3, d.atom4>>
    ELSE <<d.atom4, d.atom3, d.atom2, d.atom1>>

RECURSIVE TermsOver(_, _)
TermsOver(ds, quad) ==
    IF ds = <<>> THEN <<>>
    ELSE (IF Oriented(Head(ds)) = quad THEN Head(ds).type ELSE <<>>)
         \o TermsOver(Tail(ds), quad)

RECURSIVE JoinFrom(_, _)
JoinFrom(ds, i) ==
    IF i > Len(ds) THEN <<>>
    ELSE (IF \E j \in 1..(i - 1) : Oriented(ds[j]) = Oriented(ds[i])
          THEN <<>>
          ELSE <<[ds[i] EXCEPT !.type = TermsOver(ds, Oriented(ds[i]))]>>)
         \o JoinFrom(ds, i + 1)

join_dihedrals(s) ==
    IF s.dihedrals = <<>> \/ s.joined THEN s
    ELSE [s EXCEPT !.dihedrals = JoinFrom(s.dihedrals, 1), !.joined = TRUE]

\* the nearest grid value to num / den, a tie to the even one
RoundDiv(num, den) ==
    LET q == num \div den
        r == num % den
    IN  IF 2 * r < den THEN q
        ELSE IF 2 * r > den THEN q + 1
        ELSE IF q % 2 = 0 THEN q ELSE q + 1

\* lines 248-257: the key of one term of a dihedral with n terms
CharmmDihedralKey(atoms, d, term, n) ==
    <<Round3(term.phi_k), Round0(term.per) \div Unit, Round0(term.phase) \div Unit,
      Round4(RoundDiv(Unit, n)), Round1(term.scee), Round1(term.scnb)>>
    \o Labels4(atoms, d)

\* lines 246-257: one key per term of every dihedral that is not an improper
RECURSIVE CharmmDihedralKeysOf(_, _)
CharmmDihedralKeysOf(atoms, ds) ==
    IF ds = <<>> THEN <<>>
    ELSE LET d == Head(ds)
         IN  (IF d.improper THEN <<>>
              ELSE [t \in DOMAIN d.type |->
                        CharmmDihedralKey(atoms, d, d.type[t], Len(d.type))])
             \o CharmmDihedralKeysOf(atoms, Tail(ds))

CharmmDihedralKeys(s) == CharmmDihedralKeysOf(s.atoms, s.dihedrals)

DihedralTypes ==
    /\ pc = "dihedral_types"
    /\ IF dihedrals # <<>> /\ use_rb_torsions
       THEN /\ \E order \in Orderings(UniqueKeys(RBTorsionKeys(structure))) :
                    unique_dihedral_types' = InvertEnumeration(order)
            /\ dihedral_types' = TypeIds(unique_dihedral_types', RBTorsionKeys(structure))
            /\ bound' = bound \cup {"dihedral_types", "unique_dihedral_types"}
            /\ UNCHANGED <<structure, charmm_dihedrals>>
       ELSE IF dihedrals # <<>> /\ use_dihedrals
       THEN /\ structure' = join_dihedrals(structure)
            /\ charmm_dihedrals' = CharmmDihedralKeys(structure')
            /\ \E order \in Orderings(UniqueKeys(charmm_dihedrals')) :
                    unique_dihedral_types' = InvertEnumeration(order)
            /\ dihedral_types' = TypeIds(unique_dihedral_types', charmm_dihedrals')
            /\ bound' = bound \cup {"dihedral_types", "unique_dihedral_types"}
       ELSE UNCHANGED <<structure, dihedralVars, bound>>
    /\ pc' = "improper_types"
    /\ UNCHANGED <<topology0, args, run, prev_data, err, styleVars, atomVars, listVars,
                   bondVars, angleVars, improperVars, fileVars>>

(***************************************************************************)
(* Lines 263-272: improper types.                                          *)
(***************************************************************************)
ImproperKey(atoms, i) ==
    <<Round3(i.type.psi_k), Round3(i.type.psi_eq)>> \o Labels4(atoms, i)

ImproperKeys(s) == [i \in DOMAIN s.impropers |-> ImproperKey(s.atoms, s.impropers[i])]

ImproperTypes ==
    /\ pc = "improper_types"
    /\ IF impropers = <<>>
       THEN UNCHANGED <<improperVars, bound>>
       ELSE /\ \E order \in Orderings(UniqueKeys(ImproperKeys(structure))) :
                    unique_improper_types' = InvertEnumeration(order)
            /\ improper_types' = TypeIds(unique_improper_types', ImproperKeys(structure))
            /\ bound' = bound \cup {"improper_types", "unique_improper_types"}
    /\ pc' = "open"
    /\ UNCHANGED <<callVars, err, styleVars, atomVars, listVars, bondVars, angleVars,
                   dihedralVars, fileVars>>


(***************************************************************************)
(* The output file.  A line is its keyword (tag), the functional-form      *)
(* token of a section header (form), its numeric fields (n) and the type   *)
(* labels of its trailing comment (s).  Blank lines are not modelled.      *)
(***************************************************************************)
Line(tag, form, n, s) == [tag |-> tag, form |-> form, n |-> n, s |-> s]

Bonded(style) == style \in {"full", "molecular"}

\* len(set(ids))
Distinct(ids) == Cardinality(Range(ids))

(***************************************************************************)
(* Lines 274-295: the file is opened (and truncated) and the header        *)
(* written.                                                                *)
(***************************************************************************)
CountLines(style, nb, na, nd, ni) ==
    IF Bonded(style)
    THEN <<Line("bonds", "", <<nb>>, <<>>), Line("angles", "", <<na>>, <<>>),
           Line("dihedrals", "", <<nd>>, <<>>), Line("impropers", "", <<ni>>, <<>>)>>
    ELSE <<>>

TypeCountLine(tag, list, ids) ==
    IF list # <<>> THEN <<Line(tag, "", <<Distinct(ids)>>, <<>>)>> ELSE <<>>

WriteHeader ==
    /\ pc = "open"
    /\ opened' = TRUE
    /\ data' = <<Line("title", "", <<>>, <<>>),
                 Line("atoms", "", <<Len(structure.atoms)>>, <<>>)>>
               \o CountLines(args.atom_style, Len(bonds), Len(angles), Len(dihedrals),
                             Len(impropers))
               \o <<Line("atom types", "", <<Cardinality(Range(types))>>, <<>>)>>
               \o (IF Bonded(args.atom_style)
                   THEN TypeCountLine("bond types", bonds, bond_types)
                        \o TypeCountLine("angle types", angles, angle_types)
                        \o TypeCountLine("dihedral types", dihedrals, dihedral_types)
                        \o TypeCountLine("improper types", impropers, improper_types)
                   ELSE <<>>)
    /\ pc' = "box"
    /\ UNCHANGED <<callVars, err, styleVars, atomVars, listVars, tableVars, coeffs, warnings>>

(***************************************************************************)
(* Lines 296-333: the box.  np.allclose(angles, 90) holds within           *)
(* 1e-8 + 1e-5 * 90 of 90 degrees.  Box(lengths, angles) has mins 0 and    *)
(* maxs the lengths; the lengths go to nm and back.                        *)
(***************************************************************************)
Abs(x) == IF x < 0 THEN -x ELSE x

AllClose90(a) == \A i \in 1..3 : Abs(a[i] - 90 * Unit) <= 9

OrthogonalLines(box) ==
    [i \in 1..3 |-> Line(<<"xlo xhi", "ylo yhi", "zlo zhi">>[i], "", <<0, box.lengths[i]>>, <<>>)]

\* np.cos(np.radians(angle)), for the angles of the boxes of the model
Cos(angle) ==
    CASE angle = 60 * Unit -> 5000
      [] angle = 90 * Unit -> 0
      [] angle = 120 * Unit -> -5000
      [] angle = 150 * Unit -> -8660
      [] angle = 180 * Unit -> -Unit

\* np.sqrt(v) for 0 <= v <= hi * hi, to the nearest grid value
Sqrt(v, hi) ==
    LET r == CHOOSE c \in 0..hi : c * c <= v /\ (c + 1) * (c + 1) > v
    IN  IF v - r * r <= (r + 1) * (r + 1) - v THEN r ELSE r + 1

Min(S) == CHOOSE x \in S : \A y \in S : x <= y
Max(S) == CHOOSE x \in S : \A y \in S : y <= x

\* lines 304-311; num is the numerator of line 311
Tilt(box) ==
    LET b == box.lengths[2]
        c == box.lengths[3]
        xy == RoundDiv(b * Cos(box.angles[3]), Unit)
        xz == RoundDiv(c * Cos(box.angles[2]), Unit)
    IN  [lx |-> box.lengths[1], xy |-> xy, xz |-> xz,
         ly |-> Sqrt(b * b - xy * xy, b),
         num |-> b * RoundDiv(c * Cos(box.angles[1]), Unit) - xy * xz]

\* num / 0.0 in numpy: inf, -inf or nan (a RuntimeWarning, no exception)
DivideByZero(num) ==
    IF num > 0 THEN Str_inf ELSE IF num < 0 THEN Str_neginf ELSE Str_nan

\* lines 311-333 with ly = 0: yz is not finite, lz = sqrt(c^2 - xz^2 - yz^2)
\* is nan, and np.min, np.max of [0.0, yz] keep 0.0 only next to an infinity
DegenerateLines(t) ==
    <<Line("xlo xhi", "", <<Min({0, t.xy, t.xz, t.xy + t.xz}),
                            t.lx + Max({0, t.xy, t.xz, t.xy + t.xz})>>, <<>>),
      Line("ylo yhi", "", IF t.num = 0 THEN <<>> ELSE <<0>>,
           IF t.num = 0 THEN <<Str_nan, Str_nan>> ELSE <<DivideByZero(t.num)>>),
      Line("zlo zhi", "", <<0>>, <<Str_nan>>),
      Line("xy xz yz", "", <<t.xy, t.xz>>, <<DivideByZero(t.num)>>)>>

\* lines 311-333 with ly > 0.  np.sqrt of a negative number is nan (a
\* RuntimeWarning, no exception), and '{:.6f}'.format(nan) is the text nan
SkewedLines(t, c) ==
    LET yz == RoundDiv(t.num, t.ly)
        lz2 == c * c - t.xz * t.xz - yz * yz
    IN  <<Line("xlo xhi", "", <<Min({0, t.xy, t.xz, t.xy + t.xz}),
                                t.lx + Max({0, t.xy, t.xz, t.xy + t.xz})>>, <<>>),
          Line("ylo yhi", "", <<Min({0, yz}), t.ly + Max({0, yz})>>, <<>>),
          IF lz2 < 0
          THEN Line("zlo zhi", "", <<0>>, <<Str_nan>>)
          ELSE Line("zlo zhi", "", <<0, Sqrt(lz2, c)>>, <<>>),
          Line("xy xz yz", "", <<t.xy, t.xz, yz>>, <<>>)>>

TriclinicLines(box) ==
    IF Tilt(box).ly = 0 THEN DegenerateLines(Tilt(box))
    ELSE SkewedLines(Tilt(box), box.lengths[3])

WriteBox ==
    /\ pc = "box"
    /\ IF AllClose90(structure.box.angles)
       THEN data' = data \o OrthogonalLines(structure.box)
       ELSE data' = data \o TriclinicLines(structure.box)
    /\ pc' = "masses"
    /\ UNCHANGED <<callVars, err, styleVars, atomVars, listVars, tableVars, coeffs, warnings,
                   opened>>

(***************************************************************************)
(* Lines 335-341: Masses.  dict(pairs) keeps a key where it first came and *)
(* the value that came last.                                               *)
(***************************************************************************)
DictPut(d, k, v) ==
    IF HasKey(d, k)
    THEN [i \in DOMAIN d |-> IF d[i][1] = k THEN <<k, v>> ELSE d[i]]
    ELSE Append(d, <<k, v>>)

RECURSIVE DictOf(_, _)
DictOf(pairs, acc) ==
    IF pairs = <<>> THEN acc
    ELSE DictOf(Tail(pairs), DictPut(acc, Head(pairs)[1], Head(pairs)[2]))

\* unique_types.index(label) + 1
TypeIndex(uniq, label) == IndexOf(uniq, label)

\* dict of (type ID of the atom, the atom's value of field f)
mass_dict(s, tys, uniq) ==
    DictOf([i \in DOMAIN s.atoms |-> <<TypeIndex(uniq, tys[i]), s.atoms[i].mass>>], <<>>)
epsilon_dict(s, tys, uniq) ==
    DictOf([i \in DOMAIN s.atoms |-> <<TypeIndex(uniq, tys[i]), s.atoms[i].epsilon>>], <<>>)
sigma_dict(s, tys, uniq) ==
    DictOf([i \in DOMAIN s.atoms |-> <<TypeIndex(uniq, tys[i]), s.atoms[i].sigma>>], <<>>)
forcefield_dict(s, tys, uniq) ==
    DictOf([i \in DOMAIN s.atoms |-> <<TypeIndex(uniq, tys[i]), s.atoms[i].type>>], <<>>)

WriteMasses ==
    /\ pc = "masses"
    /\ LET md == mass_dict(structure, types, unique_types)
       IN  data' = data \o <<Line("Masses", "", <<>>, <<>>)>>
                        \o [i \in DOMAIN md |->
                                Line("mass", "", <<md[i][1], md[i][2]>>,
                                     <<unique_types[md[i][1]]>>)]
    /\ pc' = "pair"
    /\ UNCHANGED <<callVars, err, styleVars, atomVars, listVars, tableVars, coeffs, warnings,
                   opened>>


(***************************************************************************)
(* Lines 343-416: pair coefficients, and with explicit cross terms         *)
(* (NBFIX) the table of every pair of types.                               *)
(***************************************************************************)
\* structure.has_NBFIX(), and ParameterSet.from_structure(structure).nbfix_types
has_NBFIX(s) == s.nbfix_types # <<>>

\* lines 358-366: the table with every key sorted; a later entry replaces
\* an earlier one of the same sorted key, in the earlier one's place
RECURSIVE new_nbfix_types(_, _)
new_nbfix_types(table, acc) ==
    IF table = <<>> THEN acc
    ELSE new_nbfix_types(Tail(table), DictPut(acc, SortedKey(Head(table)[1]), Head(table)[2]))

\* lines 361-364, 367: the warnings of the normalisation
RECURSIVE NbfixWarnings(_, _)
NbfixWarnings(table, acc) ==
    IF table = <<>> THEN <<>>
    ELSE (IF HasKey(acc, SortedKey(Head(table)[1]))
          THEN <<"Sorted key matches an existing key",
                 "nbfixes are not symmetric, overwriting old nbfix">>
          ELSE <<>>)
         \o NbfixWarnings(Tail(table), DictPut(acc, SortedKey(Head(table)[1]), Head(table)[2]))

\* it.combinations_with_replacement(unique_types, 2)
RECURSIVE CombosFrom(_, _, _)
CombosFrom(uniq, i, j) ==
    IF i > Len(uniq) THEN <<>>
    ELSE IF j > Len(uniq) THEN CombosFrom(uniq, i + 1, i + 1)
    ELSE <<(<<uniq[i], uniq[j]>>)>> \o CombosFrom(uniq, i, j + 1)

Combos(uniq) == CombosFrom(uniq, 1, 1)

\* rmin / 2**(1/6), 2**(1/6) = 1.12246
SigmaFromRmin(rmin) == RoundDiv(rmin * 100000, 112246)

\* x ** 0.5, to the nearest grid value; p is a product of two grid values
GeometricMean(x, y) ==
    LET lo == IF x < y THEN x ELSE y
        hi == IF x < y THEN y ELSE x
        r == CHOOSE c \in lo..hi : c * c <= x * y /\ (c + 1) * (c + 1) > x * y
    IN  IF x * y - r * r <= (r + 1) * (r + 1) - x * y THEN r ELSE r + 1

SupportedRule(rule) == rule \in {"lorentz", "geometric"}

\* lines 387-390
MixedSigma(rule, s1, s2) ==
    IF rule = "lorentz" THEN RoundDiv(s1 + s2, 2) ELSE GeometricMean(s1, s2)

\* lines 372-394: the entry of one pair of types; combo is not an entry
\* that needs an unsupported rule
Coeff(combo, nbfix, uniq, sig, eps, rule) ==
    LET type1 == TypeIndex(uniq, combo[1])
        type2 == TypeIndex(uniq, combo[2])
    IN  IF HasKey(nbfix, combo)
        THEN <<(<<type1, type2>>),
               (<<SigmaFromRmin(Lookup(nbfix, combo)[1]), Lookup(nbfix, combo)[2]>>)>>
        ELSE IF type1 = type2
        THEN <<(<<type1, type2>>), (<<Lookup(sig, type1), Lookup(eps, type1)>>)>>
        ELSE <<(<<type1, type2>>),
               (<<MixedSigma(rule, Lookup(sig, type1), Lookup(sig, type2)),
                  GeometricMean(Lookup(eps, type1), Lookup(eps, type2))>>)>>

\* line 392 is reached for this pair
NeedsRule(combo, nbfix) == ~HasKey(nbfix, combo) /\ combo[1] # combo[2]

\* the pairs processed before the loop ends or raises
RECURSIVE Processed(_, _, _)
Processed(combos, nbfix, rule) ==
    IF combos = <<>> THEN <<>>
    ELSE IF NeedsRule(Head(combos), nbfix) /\ ~SupportedRule(rule) THEN <<>>
    ELSE <<Head(combos)>> \o Processed(Tail(combos), nbfix, rule)

PairIJLines(cf, ffd) ==
    <<Line("PairIJ Coeffs", "modified lj", <<>>, <<>>)>>
    \o [i \in DOMAIN cf |->
            Line("pairij", "", <<cf[i][1][1], cf[i][1][2], cf[i][2][2], cf[i][2][1]>>,
                 <<Lookup(ffd, cf[i][1][1]), Lookup(ffd, cf[i][1][2])>>)]

PairLines(eps, sig, labels) ==
    <<Line("Pair Coeffs", "lj", <<>>, <<>>)>>
    \o [i \in DOMAIN eps |->
            Line("pair", "", <<eps[i][1], eps[i][2], Lookup(sig, eps[i][1])>>,
                 IF labels = <<>> THEN <<>> ELSE <<Lookup(labels, eps[i][1])>>)]

WritePair ==
    /\ pc = "pair"
    /\ LET eps == epsilon_dict(structure, types, unique_types)
           sig == sigma_dict(structure, types, unique_types)
           ffd == forcefield_dict(structure, types, unique_types)
           nbfix == new_nbfix_types(structure.nbfix_types, <<>>)
           combos == Combos(unique_types)
           done == Processed(combos, nbfix, structure.combining_rule)
       IN  IF ~forcefield
           THEN /\ pc' = "atoms" /\ err' = err
                /\ UNCHANGED <<coeffs, warnings, data>>
           ELSE IF has_NBFIX(structure)
           THEN /\ warnings' = warnings \o NbfixWarnings(structure.nbfix_types, <<>>)
                                \o <<"Explicitly writing cross interactions using mixing rule">>
                /\ coeffs' = [i \in DOMAIN done |->
                                Coeff(done[i], nbfix, unique_types, sig, eps,
                                      structure.combining_rule)]
                /\ IF Len(done) < Len(combos)
                   THEN /\ Raise("ValueError: combining rule")
                        /\ UNCHANGED data
                   ELSE /\ pc' = "coeffs" /\ err' = err
                        /\ data' = data \o (IF args.nbfix_in_data_file
                                             THEN PairIJLines(coeffs', ffd)
                                             ELSE PairLines(eps, sig, <<>>))
           ELSE /\ pc' = "coeffs" /\ err' = err
                /\ data' = data \o PairLines(eps, sig, ffd)
                /\ UNCHANGED <<coeffs, warnings>>
    /\ UNCHANGED <<callVars, styleVars, atomVars, listVars, tableVars, opened>>


(***************************************************************************)
(* Lines 418-475: the coefficient sections of the bonded categories, one   *)
(* row per item of the category's type table.  A table that was never      *)
(* assigned raises (UnboundLocalError) after the section header is written.*)
(***************************************************************************)
\* mbuild.utils.conversion.RB_to_OPLS
RB_to_OPLS(c0, c1, c2, c3, c4, c5) ==
    <<(0 - RoundDiv(3 * c3, 2)) - 2 * c1, c0 + c1 + c3, 0 - RoundDiv(c3, 2),
      0 - RoundDiv(c4, 4)>>

BondCoeffRow(item) ==
    Line("bond coeff", "", <<item[2], item[1][1], item[1][2]>>,
         <<item[1][3][1], item[1][3][2]>>)
CharmmAngleCoeffRow(item) ==
    Line("angle coeff", "", <<item[2], item[1][1], item[1][2], item[1][3], item[1][4]>>, <<>>)
HarmonicAngleCoeffRow(item) ==
    Line("angle coeff", "", <<item[2], item[1][1], item[1][2]>>,
         <<item[1][4][1], item[1][3], item[1][4][2]>>)
OplsDihedralCoeffRow(item) ==
    Line("dihedral coeff", "",
         <<item[2]>> \o RB_to_OPLS(item[1][1], item[1][2], item[1][3], item[1][4],
                                   item[1][5], item[1][6]),
         <<item[1][9], item[1][10], item[1][11], item[1][12]>>)
CharmmDihedralCoeffRow(item) ==
    Line("dihedral coeff", "", <<item[2], item[1][1], item[1][2], item[1][3], item[1][4]>>,
         <<item[1][7], item[1][8], item[1][9], item[1][10]>>)
ImproperCoeffRow(item) ==
    Line("improper coeff", "", <<item[2], item[1][1], item[1][2]>>,
         <<item[1][3], item[1][4], item[1][5], item[1][6]>>)

AngleForm_m(ub) == "harmonic"
AngleForm(ub) == IF ub THEN "charmm" ELSE "harmonic"
DihedralForm(rb) == IF rb THEN "opls" ELSE "charmm"

BondCoeffs ==
    IF bonds = <<>> THEN <<>>
    ELSE <<Line("Bond Coeffs", "harmonic", <<>>, <<>>)>>
         \o (IF "unique_bond_types" \in bound THEN [i \in DOMAIN unique_bond_types |-> BondCoeffRow(unique_bond_types[i])]
             ELSE <<>>)

AngleCoeffs ==
    IF angles = <<>> THEN <<>>
    ELSE <<Line("Angle Coeffs", AngleForm(use_urey_bradleys), <<>>, <<>>)>>
         \o (IF use_urey_bradleys THEN [i \in DOMAIN unique_angle_types |-> CharmmAngleCoeffRow(unique_angle_types[i])]
             ELSE [i \in DOMAIN unique_angle_types |-> HarmonicAngleCoeffRow(unique_angle_types[i])])

DihedralCoeffs ==
    IF dihedrals = <<>> \/ ~(use_rb_torsions \/ use_dihedrals) THEN <<>>
    ELSE <<Line("Dihedral Coeffs", DihedralForm(use_rb_torsions), <<>>, <<>>)>>
         \o (IF use_rb_torsions THEN [i \in DOMAIN unique_dihedral_types |-> OplsDihedralCoeffRow(unique_dihedral_types[i])]
             ELSE [i \in DOMAIN unique_dihedral_types |-> CharmmDihedralCoeffRow(unique_dihedral_types[i])])

ImproperCoeffs ==
    IF impropers = <<>> THEN <<>>
    ELSE <<Line("Improper Coeffs", "harmonic", <<>>, <<>>)>>
         \o [i \in DOMAIN unique_improper_types |-> ImproperCoeffRow(unique_improper_types[i])]

WriteCoeffs ==
    /\ pc = "coeffs"
    /\ IF bonds # <<>> /\ "unique_bond_types" \notin bound
       THEN /\ data' = data \o BondCoeffs
            /\ Raise("UnboundLocalError: unique_bond_types")
       ELSE /\ data' = data \o BondCoeffs \o AngleCoeffs \o DihedralCoeffs \o ImproperCoeffs
            /\ pc' = "atoms" /\ err' = err
    /\ UNCHANGED <<callVars, styleVars, atomVars, listVars, tableVars, coeffs, warnings,
                   opened>>

(***************************************************************************)
(* Lines 477-492: the Atoms section, one record per atom in the layout of  *)
(* the atom style.                                                         *)
(***************************************************************************)
AtomRecord(style, i, type_index, charge) ==
    Line("atom", "",
         IF style = "atomic" THEN <<i, type_index>>
         ELSE IF style = "charge" THEN <<i, type_index, charge>>
         ELSE IF style = "molecular" THEN <<i, 0, type_index>>
         ELSE <<i, 0, type_index, charge>>,
         <<>>)

AtomRecords(s, style, tys, uniq) ==
    [i \in DOMAIN s.atoms |-> AtomRecord(style, i, TypeIndex(uniq, tys[i]), s.atoms[i].charge)]

WriteAtoms ==
    /\ pc = "atoms"
    /\ IF ValidAtomStyle(args.atom_style)
       THEN /\ data' = data \o <<Line("Atoms", "", <<>>, <<>>)>>
                            \o AtomRecords(structure, args.atom_style, types, unique_types)
            /\ pc' = "bonded" /\ err' = err
       ELSE /\ data' = data \o <<Line("Atoms", "", <<>>, <<>>)>>
            /\ Raise("UnboundLocalError: atom_line")
    /\ UNCHANGED <<callVars, styleVars, atomVars, listVars, tableVars, coeffs, warnings,
                   opened>>

(***************************************************************************)
(* Lines 494-522: the Bonds, Angles, Dihedrals and Impropers sections, one *)
(* record per entry of the index lists, for the styles with bonded terms.  *)
(***************************************************************************)
\* the records of one section: instance index, type ID, the atoms
Records_m(tag, list, ids, n) ==
    [i \in 1..(IF n > 1 THEN n - 1 ELSE n) |-> Line(tag, "", <<i, ids[i]>> \o list[i], <<>>)]
Records(tag, list, ids, n) ==
    [i \in 1..n |-> Line(tag, "", <<i, ids[i]>> \o list[i], <<>>)]

Section(header, tag, list, ids) ==
    IF list = <<>> THEN <<>>
    ELSE <<Line(header, "", <<>>, <<>>)>>
         \o Records(tag, list, ids, IF Len(ids) < Len(list) THEN Len(ids) ELSE Len(list))

\* lines 521-522: atoms 3, 2, 1, 4 of the improper
Permuted(list) == [i \in DOMAIN list |-> <<list[i][3], list[i][2], list[i][1], list[i][4]>>]

WriteBonded ==
    /\ pc = "bonded"
    /\ IF ~Bonded(args.atom_style)
       THEN /\ pc' = "done" /\ err' = err
            /\ UNCHANGED data
       ELSE IF Len(dihedral_types) < Len(dihedrals)
       THEN /\ data' = data \o Section("Bonds", "bond", bonds, bond_types)
                            \o Section("Angles", "angle", angles, angle_types)
                            \o Section("Dihedrals", "dihedral", dihedrals, dihedral_types)
            /\ Raise("IndexError: dihedral_types")
       ELSE /\ data' = data \o Section("Bonds", "bond", bonds, bond_types)
                            \o Section("Angles", "angle", angles, angle_types)
                            \o Section("Dihedrals", "dihedral", dihedrals, dihedral_types)
                            \o Section("Impropers", "improper", Permuted(impropers),
                                       improper_types)
            /\ pc' = "done" /\ err' = err
    /\ UNCHANGED <<callVars, styleVars, atomVars, listVars, tableVars, coeffs, warnings,
                   opened>>

(***************************************************************************)
(* The caller runs the writer again, in a fresh interpreter, on the same   *)
(* topology with the same arguments, keeping the first file to compare.    *)
(***************************************************************************)
Reinvoke ==
    /\ pc = "done"
    /\ run < MaxRuns
    /\ run' = run + 1
    /\ prev_data' = data
    /\ topology0' = structure
    /\ pc' = "check_atom_style"
    /\ err' = ""
    /\ use_urey_bradleys' = args.use_urey_bradleys
    /\ use_rb_torsions' = args.use_rb_torsions
    /\ use_dihedrals' = args.use_dihedrals
    /\ forcefield' = TRUE
    /\ types' = <<>>
    /\ unique_types' = <<>>
    /\ bonds' = <<>> /\ angles' = <<>> /\ dihedrals' = <<>> /\ impropers' = <<>>
    /\ bond_types' = <<>> /\ unique_bond_types' = <<>>
    /\ charmm_angle_types' = <<>> /\ angle_types' = <<>> /\ unique_angle_types' = <<>>
    /\ charmm_dihedrals' = <<>> /\ dihedral_types' = <<>> /\ unique_dihedral_types' = <<>>
    /\ improper_types' = <<>> /\ unique_improper_types' = <<>>
    /\ bound' = {}
    /\ coeffs' = <<>>
    /\ warnings' = <<>>
    /\ opened' = FALSE
    /\ UNCHANGED <<structure, args, data>>

Next ==
    \/ CheckAtomStyle
    \/ GatherTypes
    \/ DetectStyle
    \/ BuildLists
    \/ BondTypes
    \/ AngleTypes
    \/ DihedralTypes
    \/ ImproperTypes
    \/ WriteHeader
    \/ WriteBox
    \/ WriteMasses
    \/ WritePair
    \/ WriteCoeffs
    \/ WriteAtoms
    \/ WriteBonded
    \/ Reinvoke

Spec == Init /\ [][Next]_vars


(***************************************************************************)
(* Properties.                                                             *)
(***************************************************************************)
\* what the file holds
LinesOf(tag) == SelectSeq(data, LAMBDA l : l.tag = tag)
HasLine(tag) == \E i \in DOMAIN data : data[i].tag = tag

\* the invocation got past the point where the type tables are built
TablesBuilt ==
    pc \in {"open", "box", "masses", "pair", "coeffs", "atoms", "bonded", "done"}

\* the canonical keys as the specification's table of section 4.2 gives them
CanonBond(b) ==
    <<RoundTo(b.type.k, 10), RoundTo(b.type.req, 10),
      IF StrLess(structure.atoms[b.atom2].type, structure.atoms[b.atom1].type)
      THEN <<structure.atoms[b.atom2].type, structure.atoms[b.atom1].type>>
      ELSE <<structure.atoms[b.atom1].type, structure.atoms[b.atom2].type>> >>
CanonEnds(a) ==
    IF StrLess(structure.atoms[a.atom3].type, structure.atoms[a.atom1].type)
    THEN <<structure.atoms[a.atom3].type, structure.atoms[a.atom1].type>>
    ELSE <<structure.atoms[a.atom1].type, structure.atoms[a.atom3].type>>
CanonHarmonicAngle(a) ==
    <<RoundTo(a.type.k, 10), RoundTo(a.type.theteq, 10), structure.atoms[a.atom2].type,
      CanonEnds(a)>>
CanonCharmmAngle(a) ==
    LET ub == UreyBradleyOf(a, structure.urey_bradleys, <<0, 0>>)
    IN  <<RoundTo(a.type.k, 10), RoundTo(a.type.theteq, 10), RoundTo(ub[1], 10),
          RoundTo(ub[2], 10), CanonEnds(a)>>
CanonLabels4(t) ==
    <<structure.atoms[t.atom1].type, structure.atoms[t.atom2].type,
      structure.atoms[t.atom3].type, structure.atoms[t.atom4].type>>
CanonRBTorsion(d) ==
    <<[i \in 1..6 |-> RoundTo(d.type.c[i], 10)], RoundTo(d.type.scee, 1000),
      RoundTo(d.type.scnb, 1000), CanonLabels4(d)>>
CanonImproper(i) ==
    <<RoundTo(i.type.psi_k, 10), RoundTo(i.type.psi_eq, 10), CanonLabels4(i)>>

\* instances i and j of list share an ID exactly when their keys are equal
SameIdIffSameKey(list, ids, Key(_)) ==
    \A i, j \in DOMAIN list : (ids[i] = ids[j]) <=> (Key(list[i]) = Key(list[j]))

TableIds(table) == {table[i][2] : i \in DOMAIN table}
Declares(tag, n) == \E i \in DOMAIN data : data[i].tag = tag /\ data[i].n = <<n>>
HeaderWritten == opened /\ pc \in {"box", "masses", "pair", "coeffs", "atoms", "bonded", "done", "error"}

\* a bonded category: ids are the IDs given to the instances, table the type
\* table, keys the set of canonical keys observed
CategoryNumbered(tag, list, ids, table, keys) ==
    LET N == Cardinality(keys)
    IN  /\ TableIds(table) = 1..N
        /\ Range(ids) = 1..N
        /\ \A i \in DOMAIN ids : ids[i] \in 1..N
        /\ (HeaderWritten /\ Bonded(args.atom_style) /\ list # <<>>) => Declares(tag, N)

C3_SameOutputTwice ==
    (run = 2 /\ pc = "done" /\ ~use_dihedrals) => data = prev_data

\* C4: with an atom style outside atomic, charge, molecular, full the call
\* fails on its first step: the file is never opened, nothing is written and
\* no other work is done.
C4_BadStyleWritesNothing ==
    args.atom_style \notin {"atomic", "charge", "molecular", "full"} =>
        /\ pc \in {"check_atom_style", "error"}
        /\ pc = "error" => err = "ValueError: atom style"
        /\ ~opened
        /\ data = <<>>
        /\ types = <<>> /\ bonds = <<>> /\ bound = {}
        /\ structure = topology0

\* C4's case: the call with atom style "foo" on a topology with bonds has failed
C4_Witness ==
    /\ pc = "error"
    /\ err = "ValueError: atom style"
    /\ args.atom_style = "foo"
    /\ structure.bonds # <<>>

\* the invocation got past the choice of styles
PassedDetect ==
    pc \notin {"check_atom_style", "gather", "detect"} /\ err # "ValueError: atom style"

\* both dihedral styles are selected: detected, or both asked for with
\* detection off
BothSelected ==
    IF args.detect_forcefield_style
    THEN topology0.rb_torsions # <<>> /\ topology0.dihedrals # <<>>
    ELSE args.use_rb_torsions /\ args.use_dihedrals

\* C5: whenever both the rb_torsion and the multi_term style are selected the
\* call fails with the conflicting-styles error; it never goes on with one of
\* the two, and writes nothing.
C5_ConflictingStylesFail ==
    (PassedDetect /\ BothSelected) =>
        /\ pc = "error"
        /\ err = "ValueError: multiple dihedral styles"
        /\ ~opened
        /\ dihedrals = <<>>

\* C5's case: detection found both kinds of dihedral data and the call failed
C5_Witness ==
    /\ pc = "error"
    /\ err = "ValueError: multiple dihedral styles"
    /\ args.detect_forcefield_style
    /\ structure.rb_torsions # <<>> /\ structure.dihedrals # <<>>

\* C6: when a validation error (atom style, conflicting dihedral styles,
\* combining rule) is raised, this invocation has not opened the file and the
\* file is as it was before the call.
C6_ValidationBeforeOutput ==
    (pc = "error" /\ err \in {"ValueError: atom style", "ValueError: multiple dihedral styles",
                              "ValueError: combining rule"}) =>
        (~opened /\ data = prev_data)

\* C7: a force-field-typed topology whose combining rule is neither lorentz
\* nor geometric is never written to the end: the call fails, with the
\* combining-rule error.
C7_UnsupportedRuleFails ==
    (topology0.atoms[1].type # Str_empty
     /\ topology0.combining_rule \notin {"lorentz", "geometric"}) =>
        /\ pc # "done"
        /\ pc = "error" => err = "ValueError: combining rule"

\* the cross-term table is complete
PairTableBuilt ==
    /\ pc \in {"coeffs", "atoms", "bonded", "done"}
    /\ forcefield
    /\ topology0.nbfix_types # <<>>

\* the entries of the explicit table for the unordered pair {A, B}
OverridesOf(A, B) ==
    {k \in DOMAIN topology0.nbfix_types :
        topology0.nbfix_types[k][1] \in {<<A, B>>, <<B, A>>}}
LastOverride(A, B) ==
    topology0.nbfix_types[CHOOSE k \in OverridesOf(A, B) :
                            \A m \in OverridesOf(A, B) : m <= k][2]
OwnSigma(i) == Lookup(sigma_dict(topology0, types, unique_types), i)
OwnEpsilon(i) == Lookup(epsilon_dict(topology0, types, unique_types), i)

\* C8: for every pair of distinct types with an explicit override (under
\* either key order) the table entry is the override (sigma = rmin / 2^(1/6),
\* epsilon as supplied), whatever the labels; every other pair of distinct
\* types has the combining rule's result.
C8_OverridesApplied ==
    PairTableBuilt =>
        \A i, j \in DOMAIN unique_types :
            i < j =>
                Lookup(coeffs, <<i, j>>) =
                    IF OverridesOf(unique_types[i], unique_types[j]) # {}
                    THEN <<SigmaFromRmin(LastOverride(unique_types[i], unique_types[j])[1]),
                           LastOverride(unique_types[i], unique_types[j])[2]>>
                    ELSE <<MixedSigma(topology0.combining_rule, OwnSigma(i), OwnSigma(j)),
                           GeometricMean(OwnEpsilon(i), OwnEpsilon(j))>>

\* C9: the table entry of a self-pair (A, A) is A's own sigma and epsilon,
\* whatever the explicit table holds.
C9_SelfPairOwn ==
    PairTableBuilt =>
        \A i \in DOMAIN unique_types : Lookup(coeffs, <<i, i>>) = <<OwnSigma(i), OwnEpsilon(i)>>

\* the input list the Dihedrals section is written from
InputDihedrals ==
    IF use_rb_torsions THEN topology0.rb_torsions
    ELSE IF use_dihedrals THEN topology0.dihedrals
    ELSE <<>>

AtomsOf(t) ==
    IF "atom4" \in DOMAIN t THEN <<t.atom1, t.atom2, t.atom3, t.atom4>>
    ELSE IF "atom3" \in DOMAIN t THEN <<t.atom1, t.atom2, t.atom3>>
    ELSE <<t.atom1, t.atom2>>

\* the section of tag holds one record per entry of input, numbered 1.. in
\* input order, as many as the header's count line declares
SectionMatches(count, tag, input, Order(_)) ==
    /\ Len(LinesOf(tag)) = Len(input)
    /\ Declares(count, Len(input))
    /\ \A i \in DOMAIN LinesOf(tag) :
            /\ LinesOf(tag)[i].n[1] = i
            /\ SubSeq(LinesOf(tag)[i].n, 3, Len(LinesOf(tag)[i].n)) = Order(AtomsOf(input[i]))

Same(q) == q
Order3214(q) == <<q[3], q[2], q[1], q[4]>>

BoxWritten == opened /\ pc # "box"

IsBoxLine(l) == l.tag \in {"xlo xhi", "ylo yhi", "zlo zhi", "xy xz yz"}
BoxLines == SelectSeq(data, IsBoxLine)
BoxTags == [i \in DOMAIN BoxLines |-> BoxLines[i].tag]

\* every value of the line is a number
Finite(l, count) == l.s = <<>> /\ Len(l.n) = count

\* C11: a box with all three angles 90 degrees is written as exactly the
\* three lo hi lines and no tilt line; a box with an angle other than 90
\* degrees as three bound lines followed by exactly one tilt line whose three
\* values are finite.
C11_BoxLines ==
    BoxWritten =>
        IF \A i \in 1..3 : topology0.box.angles[i] = 90 * Unit
        THEN BoxTags = <<"xlo xhi", "ylo yhi", "zlo zhi">>
        ELSE /\ BoxTags = <<"xlo xhi", "ylo yhi", "zlo zhi", "xy xz yz">>
             /\ Finite(BoxLines[4], 3)

\* lz^2 = c^2 - xz^2 - yz^2 of a cell with ly > 0
Lz2(box) ==
    box.lengths[3] * box.lengths[3] - Tilt(box).xz * Tilt(box).xz
    - RoundDiv(Tilt(box).num, Tilt(box).ly) * RoundDiv(Tilt(box).num, Tilt(box).ly)

\* a non-orthogonal cell with ly zero, or ly^2 or lz^2 negative
DegenerateCell(box) ==
    /\ \E i \in 1..3 : box.angles[i] # 90 * Unit
    /\ ~AllClose90(box.angles)
    /\ (Tilt(box).ly = 0 \/ Lz2(box) < 0)

\* C12: with a degenerate non-orthogonal cell the call fails during the box
\* transform: it never goes on to Masses, Coeffs or Atoms and never writes
\* box lines computed from such a cell.
C12_DegenerateCellFails ==
    DegenerateCell(topology0.box) =>
        /\ pc \notin {"masses", "pair", "coeffs", "atoms", "bonded", "done"}
        /\ ~(opened /\ HasLine("xy xz yz"))

\* C13: the call leaves the topology as it was handed in: at every point of
\* the invocation, on success and on failure and under every style, its atoms,
\* bonded-term lists (the dihedrals and the terms of each), box and parameters
\* are those of the call's start.  (Compared without the mark of a topology
\* whose dihedrals carry term lists, so only a change of content counts.)
C13_TopologyUnchanged ==
    [structure EXCEPT !.joined = FALSE] = [topology0 EXCEPT !.joined = FALSE]

\* the form on every header with tag is in forms
Tagged(tag, forms) == \A i \in DOMAIN data : data[i].tag = tag => data[i].form \in forms

\* every row with tag has count numeric columns
Columns(tag, count) == \A i \in DOMAIN data : data[i].tag = tag => Len(data[i].n) = count

\* the forms of the bonded coefficient sections of this invocation's file
BondedFormsMatch ==
    /\ Tagged("Bond Coeffs", {"harmonic"})
    /\ Tagged("Improper Coeffs", {"harmonic"})
    /\ Tagged("Angle Coeffs", {IF use_urey_bradleys THEN "charmm" ELSE "harmonic"})
    /\ Columns("angle coeff", IF use_urey_bradleys THEN 5 ELSE 3)
    /\ \A i \in DOMAIN unique_angle_types :
            Len(unique_angle_types[i][1]) = IF use_urey_bradleys THEN 5 ELSE 4
    /\ HasLine("Dihedral Coeffs") => (use_rb_torsions \/ use_dihedrals)
    /\ Tagged("Dihedral Coeffs", {IF use_rb_torsions THEN "opls" ELSE "charmm"})
    /\ Columns("dihedral coeff", 5)
    /\ \A i \in DOMAIN unique_dihedral_types :
            Len(unique_dihedral_types[i][1]) = IF use_rb_torsions THEN 12 ELSE 10

\* C14 as stated: the form token of every coefficient header is that of the
\* style its rows were built with (Angle Coeffs charmm with five columns
\* exactly under the Urey-Bradley style, Dihedral Coeffs opls under rb_torsion
\* and charmm with five columns under multi_term, Bond and Improper Coeffs
\* harmonic), and every pair section is tagged lj.
C14_FormTokens_Stated ==
    opened =>
        /\ BondedFormsMatch
        /\ Tagged("Pair Coeffs", {"lj"})
        /\ Tagged("PairIJ Coeffs", {"lj"})

\* C14, amended: as stated for the bonded sections and for Pair Coeffs; the
\* PairIJ Coeffs section of the explicit cross terms is tagged modified lj.
C14_FormTokens ==
    opened =>
        /\ BondedFormsMatch
        /\ Tagged("Pair Coeffs", {"lj"})
        /\ Tagged("PairIJ Coeffs", {"modified lj"})

\* C14's case: a finished file with a charmm Angle Coeffs section with rows
C14_Witness ==
    /\ pc = "done"
    /\ use_urey_bradleys
    /\ \E i \in DOMAIN data : data[i].tag = "Angle Coeffs" /\ data[i].form = "charmm"
    /\ HasLine("angle coeff")
    /\ HasLine("Pair Coeffs")

\* this invocation has normalized an explicit override table
NormalizationDone ==
    /\ opened /\ forcefield /\ topology0.nbfix_types # <<>>
    /\ \/ pc \in {"coeffs", "atoms", "bonded", "done"}
       \/ pc = "error" /\ err = "ValueError: combining rule"

\* the entries whose key names the same unordered pair as an earlier entry's
Collisions ==
    {k \in DOMAIN topology0.nbfix_types :
        \E j \in 1..(k - 1) :
            j \in OverridesOf(topology0.nbfix_types[k][1][1], topology0.nbfix_types[k][1][2])}

Count(seq, x) == Cardinality({i \in DOMAIN seq : seq[i] = x})

\* the items of the normalized table for the unordered pair {A, B}
NormalizedFor(norm, A, B) == {i \in DOMAIN norm : norm[i][1] \in {<<A, B>>, <<B, A>>}}

\* C15: normalizing the override table takes the entries in order; an entry
\* whose sorted key was already seen gives a warning and no failure, the
\* normalization runs to its end, and the normalized table holds exactly one
\* entry per unordered pair, with the value of the pair's last entry.
C15_LastOverrideWins ==
    NormalizationDone =>
        LET table == topology0.nbfix_types
            norm == new_nbfix_types(table, <<>>)
        IN  /\ \A k \in DOMAIN table :
                LET on == NormalizedFor(norm, table[k][1][1], table[k][1][2])
                IN  /\ Cardinality(on) = 1
                    /\ \A i \in on : norm[i][2] = LastOverride(table[k][1][1], table[k][1][2])
            /\ \A i \in DOMAIN norm : OverridesOf(norm[i][1][1], norm[i][1][2]) # {}
            /\ Count(warnings, "Sorted key matches an existing key") = Cardinality(Collisions)
            /\ Count(warnings, "Explicitly writing cross interactions using mixing rule") = 1

\* C15's case: a finished call whose table held a key and its reverse with
\* different values
C15_Witness ==
    /\ pc = "done"
    /\ NormalizationDone
    /\ Len(topology0.nbfix_types) = 2
    /\ topology0.nbfix_types[1][1] = <<Str_C2, Str_C10>>
    /\ topology0.nbfix_types[2][1] = <<Str_C10, Str_C2>>
    /\ topology0.nbfix_types[1][2] # topology0.nbfix_types[2][2]
    /\ Collisions = {2}

\* the Urey-Bradley terms that join the two end atoms of angle a
JoiningTerms(a) ==
    {j \in DOMAIN topology0.urey_bradleys :
        {topology0.urey_bradleys[j].atom1, topology0.urey_bradleys[j].atom2}
            = {a.atom1, a.atom3}}

\* C16: under the Urey-Bradley style the key of every angle carries the
\* rounded k and length of a stretch-bend term that joins the angle's two end
\* atoms, in whichever order the term lists them, and zero for both exactly
\* when no term joins them.
C16_StretchBendMatched ==
    (use_urey_bradleys /\ "unique_angle_types" \in bound) =>
        \A i \in DOMAIN charmm_angle_types :
            IF JoiningTerms(topology0.angles[i]) = {}
            THEN charmm_angle_types[i][3] = 0 /\ charmm_angle_types[i][4] = 0
            ELSE \E j \in JoiningTerms(topology0.angles[i]) :
                    /\ charmm_angle_types[i][3] = RoundTo(topology0.urey_bradleys[j].type.k, 10)
                    /\ charmm_angle_types[i][4] = RoundTo(topology0.urey_bradleys[j].type.req, 10)

\* the atoms of dihedral d, read from its lower-numbered end
SameAtoms(d, e) ==
    <<e.atom1, e.atom2, e.atom3, e.atom4>>
        \in {<<d.atom1, d.atom2, d.atom3, d.atom4>>, <<d.atom4, d.atom3, d.atom2, d.atom1>>}

\* key is built from a term of input dihedral d (or of an input dihedral over
\* the same atoms, whose terms a joined d shares) and from d's type labels,
\* read from either end; the weight column is left open
OwnKey(key, d) ==
    /\ <<key[7], key[8], key[9], key[10]>>
            \in {<<topology0.atoms[d.atom1].type, topology0.atoms[d.atom2].type,
                   topology0.atoms[d.atom3].type, topology0.atoms[d.atom4].type>>,
                 <<topology0.atoms[d.atom4].type, topology0.atoms[d.atom3].type,
                   topology0.atoms[d.atom2].type, topology0.atoms[d.atom1].type>>}
    /\ \E j \in DOMAIN topology0.dihedrals :
            /\ SameAtoms(d, topology0.dihedrals[j])
            /\ \E t \in DOMAIN topology0.dihedrals[j].type :
                    LET term == topology0.dihedrals[j].type[t]
                    IN  /\ key[1] = RoundTo(term.phi_k, 10)
                        /\ key[2] * Unit = RoundTo(term.per, Unit)
                        /\ key[3] * Unit = RoundTo(term.phase, Unit)
                        /\ key[5] = RoundTo(term.scee, 1000)
                        /\ key[6] = RoundTo(term.scnb, 1000)

\* C17: under the multi_term style the ID lookup of the Dihedrals section
\* never fails, and the record of every input dihedral, in input order,
\* carries the ID of a key built from that dihedral's own terms and labels.
C17_DihedralRecordsOwnKey ==
    (opened /\ use_dihedrals) =>
        /\ err # "IndexError: dihedral_types"
        /\ \A i \in DOMAIN LinesOf("dihedral") :
                \E k \in DOMAIN unique_dihedral_types :
                    /\ unique_dihedral_types[k][2] = LinesOf("dihedral")[i].n[2]
                    /\ OwnKey(unique_dihedral_types[k][1], topology0.dihedrals[i])

\* the Coeffs section of a category, if written, has as many rows as the
\* header's types line of the category declares
CoeffsDeclared(section, row, count) ==
    HasLine(section) => Declares(count, Len(LinesOf(row)))

\* C18: for a typed topology under every atom style, writing the Coeffs
\* sections never reads a type table that was not built, and every bonded
\* Coeffs section written has an 'N <category> types' line in the header with
\* N the number of its rows.
C18_CoeffsMatchHeader ==
    (opened /\ forcefield) =>
        /\ err # "UnboundLocalError: unique_bond_types"
        /\ pc \in {"atoms", "bonded", "done"} =>
            /\ CoeffsDeclared("Bond Coeffs", "bond coeff", "bond types")
            /\ CoeffsDeclared("Angle Coeffs", "angle coeff", "angle types")
            /\ CoeffsDeclared("Dihedral Coeffs", "dihedral coeff", "dihedral types")
            /\ CoeffsDeclared("Improper Coeffs", "improper coeff", "improper types")

=============================================================================
